---- MODULE Spec2Model ----
(***************************************************************************)
(* The ANTLR build pipeline of scripts/build_antlr_js.py: the grammar      *)
(* transform (remove_block, transform_predicates_for_js), the driver main  *)
(* with its four stages over the files they read and write, and the        *)
(* JavaScript lexer members that add_predicate_implementations appends.    *)
(* A text is a sequence of one-character strings.                          *)
(***************************************************************************)
EXTENDS Integers, Sequences, FiniteSets, TLC

VARIABLES
    input,      \* the text handed to remove_block / transform_predicates_for_js
    output,     \* the text it returned
    phase,      \* "idle", "input", "stripped" or "rewritten"
    pc,         \* main: the step running, or "Done", "Failed", "Raised"
    at,         \* where the running step stands: the file operation it does next
    local,      \* the running step's local variable content (lexer_content in Verify)
    fs,         \* the files the stages read and write: file -> [exists, text]
    trace,      \* the stages main has called so far in this run, with their outcome
    ret,        \* main's return value: {} while running, {0} or {1} once returned
    report,     \* verify_predicates' three missing collections of its last call
    run,        \* how many times main has been invoked
    removed,    \* the injected implementations taken out of an artifact before Verify
    deleted,    \* how many files another process has deleted
    own,        \* JavaScript: each lexer instance's own properties
    heap,       \* JavaScript: the array objects, by reference
    lastCall    \* JavaScript: the last member called, on which instance, its result

textVars == <<input, output, phase>>
pipeVars == <<pc, at, local, fs, trace, ret, report, run, removed, deleted>>
jsVars == <<own, heap, lastCall>>
vars == <<input, output, phase, pc, at, local, fs, trace, ret, report, run, removed,
          deleted, own, heap, lastCall>>

(***************************************************************************)
(* Bounds of the model.                                                    *)
(***************************************************************************)
MaxSegs == 4
MaxFrags == 2
MaxRuns == 2
MaxDeleted == 1
NumLexers == 2
MaxLevel == 2
MaxTags == 1

(***************************************************************************)
(* Characters and the regular-expression pieces the source uses.           *)
(***************************************************************************)
Letters ==
    {"a","b","c","d","e","f","g","h","i","j","k","l","m","n","o","p","q","r","s","t","u","v",
     "w","x","y","z","A","B","C","D","E","F","G","H","I","J","K","L","M","N","O","P","Q","R",
     "S","T","U","V","W","X","Y","Z"}

Digits == {"0","1","2","3","4","5","6","7","8","9"}

\* the class [a-zA-Z_0-9] of the last pattern of transform_predicates_for_js
IdentChars == Letters \cup Digits \cup {"_"}

\* The patterns are str patterns compiled without re.ASCII, so \w and \s are the
\* Unicode classes.  The texts of this module range over the characters U+0000 to
\* U+00FF; on that alphabet the two classes are listed in full.
\* str.isalnum() beyond ASCII: U+00AA, U+00B2, U+00B3, U+00B5, U+00B9, U+00BA,
\* U+00BC to U+00BE, U+00C0 to U+00FF without U+00D7 and U+00F7
Latin1WordChars ==
    {"ª","²","³","µ","¹","º","¼","½","¾","À","Á","Â","Ã","Ä","Å","Æ","Ç","È",
     "É","Ê","Ë","Ì","Í","Î","Ï","Ð","Ñ","Ò","Ó","Ô","Õ","Ö","Ø","Ù","Ú","Û",
     "Ü","Ý","Þ","ß","à","á","â","ã","ä","å","æ","ç","è","é","ê","ë","ì","í",
     "î","ï","ð","ñ","ò","ó","ô","õ","ö","ø","ù","ú","û","ü","ý","þ","ÿ"}

\* \w of Python's re: str.isalnum() or the underscore
WordChars == IdentChars \cup Latin1WordChars

\* \s of Python's re, and what str.rstrip() strips (str.isspace()): the space,
\* U+0009 to U+000D, U+001C to U+001F, U+0085, U+00A0
Whitespace ==
    {" ", "\t", "\n", "", "\f", "\r", "", "", "", "", "", " "}

\* the literal ' \t\n\r' of remove_block
BlockTrailing == {" ", "\t", "\n", "\r"}

\* the literal lit occurs in s at position i
MatchLit(s, i, lit) ==
    /\ i >= 1
    /\ i + Len(lit) - 1 <= Len(s)
    /\ \A k \in 1..Len(lit) : s[i + k - 1] = lit[k]

\* the positions of s where the literal lit occurs
Occurrences(s, lit) ==
    IF lit = << >> THEN 1..(Len(s) + 1)
    ELSE {i \in {k \in 1..Len(s) : s[k] = lit[1]} : MatchLit(s, i, lit)}

\* the first position from i on that holds no character of class (Len(s)+1 if none)
SkipWhile(s, i, class) ==
    CHOOSE j \in i..(Len(s) + 1) :
        /\ (j = Len(s) + 1 \/ s[j] \notin class)
        /\ \A k \in i..(j - 1) : s[k] \in class

\* s[i] exists and is the character c
Has(s, i, c) == i >= 1 /\ i <= Len(s) /\ s[i] = c

\* s from position i to its end
From(s, i) == SubSeq(s, i, Len(s))

(***************************************************************************)
(* remove_block(content, block_name)                                       *)
(***************************************************************************)
\* re.match(rf'@{block_name}\s*\{', content[i:]): the position after the match, 0 if none
\* block_name goes into the pattern unescaped: it stands for itself when it is made
\* of word characters, as 'header' and 'members' are, and only then is this defined
BlockOpenEnd(content, i, block_name) ==
    CASE \A k \in 1..Len(block_name) : block_name[k] \in WordChars ->
        IF MatchLit(content, i, <<"@">> \o block_name)
        THEN LET j == SkipWhile(content, i + 1 + Len(block_name), Whitespace)
             IN  IF Has(content, j, "{") THEN j + 1 ELSE 0
        ELSE 0

\* the inner while loop: scan from j until brace_count is 0 or the text ends
RECURSIVE CloseBrace(_, _, _)
CloseBrace(content, j, brace_count) ==
    IF j <= Len(content) /\ brace_count > 0
    THEN CloseBrace(content, j + 1,
                    IF content[j] = "{" THEN brace_count + 1
                    ELSE IF content[j] = "}" THEN brace_count - 1
                    ELSE brace_count)
    ELSE j

\* where the scan resumes after a block opened at i: past the closing brace and
\* the whitespace that follows it
BlockEnd(content, i, block_name) ==
    SkipWhile(content, CloseBrace(content, BlockOpenEnd(content, i, block_name), 1),
              BlockTrailing)

RECURSIVE RemoveFrom(_, _, _)
RemoveFrom(content, block_name, i) ==
    IF i > Len(content) THEN << >>
    ELSE IF BlockOpenEnd(content, i, block_name) # 0
         THEN RemoveFrom(content, block_name, BlockEnd(content, i, block_name))
         ELSE <<content[i]>> \o RemoveFrom(content, block_name, i + 1)

remove_block(content, block_name) == RemoveFrom(content, block_name, 1)

\* how many times the outer loop takes its match branch
RECURSIVE RemovedFrom(_, _, _)
RemovedFrom(content, block_name, i) ==
    IF i > Len(content) THEN 0
    ELSE IF BlockOpenEnd(content, i, block_name) # 0
         THEN 1 + RemovedFrom(content, block_name, BlockEnd(content, i, block_name))
         ELSE RemovedFrom(content, block_name, i + 1)

(***************************************************************************)
(* transform_predicates_for_js(content): six re.sub passes in order.       *)
(***************************************************************************)
\* the maximal run of \w from i on ends before this position
WordEnd(s, i) == SkipWhile(s, i, WordChars)

\* r'\{tags\.push\(getText\(\)\);?\}' and r'\{tags\.pop\(\);?\}': a literal, an
\* optional semicolon, the closing brace
OptSemiEnd(s, i, lit) ==
    IF MatchLit(s, i, lit)
    THEN LET j == i + Len(lit)
             k == IF Has(s, j, ";") THEN j + 1 ELSE j
         IN  IF Has(s, k, "}") THEN k + 1 ELSE 0
    ELSE 0

\* r'\{(!?)(\w+)\(\)\}(\?)?' : [end, bang, name, q], end = 0 if no match
CallMatch(s, i) ==
    LET b == IF Has(s, i + 1, "!") THEN 1 ELSE 0
        n == i + 1 + b
        e == WordEnd(s, n)
        q == IF Has(s, e + 3, "?") THEN 1 ELSE 0
    IN  IF Has(s, i, "{") /\ e > n /\ MatchLit(s, e, <<"(",")","}">>)
        THEN [end |-> e + 3 + q, bang |-> b, name |-> SubSeq(s, n, e - 1), q |-> q]
        ELSE [end |-> 0, bang |-> 0, name |-> << >>, q |-> 0]

\* r'\{(\w+)\(\);\}'
ActionMatch(s, i) ==
    LET e == WordEnd(s, i + 1)
    IN  IF Has(s, i, "{") /\ e > i + 1 /\ MatchLit(s, e, <<"(",")",";","}">>)
        THEN [end |-> e + 4, bang |-> 0, name |-> SubSeq(s, i + 1, e - 1), q |-> 0]
        ELSE [end |-> 0, bang |-> 0, name |-> << >>, q |-> 0]

\* r'\{(!?)([a-zA-Z][a-zA-Z_0-9]*)\}(\?)'
VarMatch(s, i) ==
    LET b == IF Has(s, i + 1, "!") THEN 1 ELSE 0
        n == i + 1 + b
        e == SkipWhile(s, n, IdentChars)
    IN  IF Has(s, i, "{") /\ e > n /\ s[n] \in Letters /\ MatchLit(s, e, <<"}","?">>)
        THEN [end |-> e + 2, bang |-> b, name |-> SubSeq(s, n, e - 1), q |-> 1]
        ELSE [end |-> 0, bang |-> 0, name |-> << >>, q |-> 0]

Bang(m) == IF m.bang = 1 THEN <<"!">> ELSE << >>
Quest(m) == IF m.q = 1 THEN <<"?">> ELSE << >>

\* pass p of transform_predicates_for_js at position i: the position after the
\* match (0 if the pattern does not match at i)
PassEnd(p, s, i) ==
    CASE p = 1 -> OptSemiEnd(s, i, <<"{","t","a","g","s",".","p","u","s","h","(","g","e","t","T","e","x","t","(",")",")">>)
      [] p = 2 -> IF MatchLit(s, i, <<"{","g","e","t","T","e","x","t","(",")",".","e","q","u","a","l","s","(","t","a","g","s",".","p","e","e","k","(",")",")","}","?">>)
                  THEN i + Len(<<"{","g","e","t","T","e","x","t","(",")",".","e","q","u","a","l","s","(","t","a","g","s",".","p","e","e","k","(",")",")","}","?">>) ELSE 0
      [] p = 3 -> OptSemiEnd(s, i, <<"{","t","a","g","s",".","p","o","p","(",")">>)
      [] p = 4 -> CallMatch(s, i).end
      [] p = 5 -> ActionMatch(s, i).end
      [] p = 6 -> VarMatch(s, i).end

\* and what the pass puts in the match's place
PassRepl(p, s, i) ==
    CASE p = 1 -> <<"{","t","h","i","s",".","p","u","s","h","D","o","l","l","a","r","T","a","g","(",")",";","}">>
      [] p = 2 -> <<"{","t","h","i","s",".","m","a","t","c","h","e","s","D","o","l","l","a","r","T","a","g","(",")","}","?">>
      [] p = 3 -> <<"{","t","h","i","s",".","p","o","p","D","o","l","l","a","r","T","a","g","(",")",";","}">>
      [] p = 4 -> LET m == CallMatch(s, i)
                  IN  <<"{">> \o Bang(m) \o <<"t","h","i","s",".">> \o m.name \o <<"(",")","}">> \o Quest(m)
      [] p = 5 -> <<"{","t","h","i","s",".">> \o ActionMatch(s, i).name \o <<"(",")",";","}">>
      [] p = 6 -> LET m == VarMatch(s, i)
                  IN  <<"{">> \o Bang(m) \o <<"t","h","i","s",".">> \o m.name \o <<"}">> \o Quest(m)

\* re.sub: leftmost matches, left to right, never overlapping
RECURSIVE ReSub(_, _, _)
ReSub(p, s, i) ==
    IF i > Len(s) THEN << >>
    ELSE IF PassEnd(p, s, i) # 0
         THEN PassRepl(p, s, i) \o ReSub(p, s, PassEnd(p, s, i))
         ELSE <<s[i]>> \o ReSub(p, s, i + 1)

transform_predicates_for_js(content) ==
    LET c1 == ReSub(1, content, 1)
        c2 == ReSub(2, c1, 1)
        c3 == ReSub(3, c2, 1)
        c4 == ReSub(4, c3, 1)
        c5 == ReSub(5, c4, 1)
    IN  ReSub(6, c5, 1)

(***************************************************************************)
(* The files of the pipeline.  A file is [exists, text].                   *)
(***************************************************************************)
SourceLexer == "grammar/SqlBaseLexer.g4"
SourceParser == "grammar/SqlBaseParser.g4"
StagedLexer == "poc/grammar/SqlBaseLexer.g4"
StagedParser == "poc/grammar/SqlBaseParser.g4"
ANTLR_JAR == "poc/antlr4.jar"
LexerJs == "poc/src/generated/SqlBaseLexer.js"
ParserJs == "poc/src/generated/SqlBaseParser.js"

Files == {SourceLexer, SourceParser, StagedLexer, StagedParser, ANTLR_JAR, LexerJs, ParserJs}

NoFile == [exists |-> FALSE, text |-> << >>]
File(text) == [exists |-> TRUE, text |-> text]

\* Text mode with universal newlines, as Path.read_text opens a file: "\r\n" and
\* a lone "\r" are read as "\n"
UniversalNewlines(s) ==
    IF \A i \in 1..Len(s) : s[i] # "\r" THEN s
    ELSE LET kept == SelectSeq([i \in 1..Len(s) |-> i],
                               LAMBDA i : ~(s[i] = "\n" /\ i > 1 /\ s[i - 1] = "\r"))
         IN  [j \in 1..Len(kept) |-> IF s[kept[j]] = "\r" THEN "\n" ELSE s[kept[j]]]

\* Path.read_text(encoding='utf-8') of a file that exists
read_text(f, path) == UniversalNewlines(f[path].text)

\* Path.write_text(text, encoding='utf-8'): "\n" is written as os.linesep, "\n" itself
\* where the script is run
WriteText(f, path, text) == [f EXCEPT ![path] = File(text)]

(***************************************************************************)
(* transform_grammar                                                       *)
(***************************************************************************)
\* the body of the for loop for one file that exists
TransformText(content) ==
    transform_predicates_for_js(
        remove_block(remove_block(content, <<"h","e","a","d","e","r">>), <<"m","e","m","b","e","r","s">>))

\* the for loop over the two file names, run with no other process at the files:
\* [ok, fs]
RECURSIVE TransformFiles(_, _)
TransformFiles(f, pairs) ==
    IF pairs = << >> THEN [ok |-> TRUE, fs |-> f]
    ELSE LET source_path == pairs[1][1]
             output_path == pairs[1][2]
         IN  IF ~f[source_path].exists
             THEN [ok |-> FALSE, fs |-> f]
             ELSE TransformFiles(
                      WriteText(f, output_path, TransformText(read_text(f, source_path))),
                      From(pairs, 2))

\* <<source_path, output_path>> for the two file names of the loop
TransformPairs == << <<SourceLexer, StagedLexer>>, <<SourceParser, StagedParser>> >>

transform_grammar(f) == TransformFiles(f, TransformPairs)

(***************************************************************************)
(* generate_antlr.  The compiler is an external batch process: it reads    *)
(* the jar and the two staged grammars and on success writes the two       *)
(* artifacts anew; exit code 0 signals success.                            *)
(***************************************************************************)
\* what the compiler run reads
CompilerInputs == {ANTLR_JAR, StagedLexer, StagedParser}

\* one run of the compiler that would end with exit on inputs that are there, and
\* would then write lexer_js and parser_js: [returncode, fs]
antlr(f, exit, lexer_js, parser_js) ==
    IF exit = 0 /\ \A p \in CompilerInputs : f[p].exists
    THEN [returncode |-> 0,
          fs |-> WriteText(WriteText(f, LexerJs, lexer_js), ParserJs, parser_js)]
    ELSE [returncode |-> IF exit = 0 THEN 1 ELSE exit, fs |-> f]

\* subprocess.run(["java", "-jar", ...]): FileNotFoundError when there is no java
\* to execute, else the compiler's run: [raised, returncode, fs]
subprocess_run(f, java, exit, lexer_js, parser_js) ==
    IF ~java THEN [raised |-> TRUE, returncode |-> 0, fs |-> f]
    ELSE LET r == antlr(f, exit, lexer_js, parser_js)
         IN  [raised |-> FALSE, returncode |-> r.returncode, fs |-> r.fs]

\* lines 201 to 217, the function after its test of the jar: [raised, ok, fs]
RunCompiler(f, java, exit, lexer_js, parser_js) ==
    LET result == subprocess_run(f, java, exit, lexer_js, parser_js)
    IN  IF result.raised THEN [raised |-> TRUE, ok |-> FALSE, fs |-> f]
        ELSE [raised |-> FALSE, ok |-> result.returncode = 0, fs |-> result.fs]

\* the function run with no other process at the files: [raised, ok, fs]
generate_antlr(f, java, exit, lexer_js, parser_js) ==
    IF ~f[ANTLR_JAR].exists THEN [raised |-> FALSE, ok |-> FALSE, fs |-> f]
    ELSE RunCompiler(f, java, exit, lexer_js, parser_js)

(***************************************************************************)
(* add_predicate_implementations                                           *)
(***************************************************************************)
lexer_predicates_js ==
    <<"\n",
    "\n",
    "/","/"," ","=","=","=","=","=","=","=","=","=","=","=","=","=","=","=","=","=","=","=","=","=","=","=","=","=","=","=","=","=","=","=","=","=","=","=","=","=","=","=","=","=","=","=","=","=","=","=","=","=","=","=","=","=","=","=","=","=","=","=","=","=","=","=","=","=","=","=","=","=","=","=","=","=","=","=","=","\n",
    "/","/"," ","L","e","x","e","r"," ","P","r","e","d","i","c","a","t","e"," ","I","m","p","l","e","m","e","n","t","a","t","i","o","n","s"," ","(","f","r","o","m"," ","J","a","v","a"," ","@","m","e","m","b","e","r","s",")","\n",
    "/","/"," ","B","a","s","e","d"," ","o","n"," ","s","p","a","r","k","f","m","t","-","c","o","r","e","/","K","N","O","W","N","_","P","R","E","D","I","C","A","T","E","S",".","j","s","o","n","\n",
    "/","/"," ","=","=","=","=","=","=","=","=","=","=","=","=","=","=","=","=","=","=","=","=","=","=","=","=","=","=","=","=","=","=","=","=","=","=","=","=","=","=","=","=","=","=","=","=","=","=","=","=","=","=","=","=","=","=","=","=","=","=","=","=","=","=","=","=","=","=","=","=","=","=","=","=","=","=","=","=","\n",
    "\n",
    "/","/"," ","S","t","a","t","e","\n",
    "S","q","l","B","a","s","e","L","e","x","e","r",".","p","r","o","t","o","t","y","p","e",".","h","a","s","_","u","n","c","l","o","s","e","d","_","b","r","a","c","k","e","t","e","d","_","c","o","m","m","e","n","t"," ","="," ","f","a","l","s","e",";","\n",
    "S","q","l","B","a","s","e","L","e","x","e","r",".","p","r","o","t","o","t","y","p","e",".","c","o","m","p","l","e","x","_","t","y","p","e","_","l","e","v","e","l","_","c","o","u","n","t","e","r"," ","="," ","0",";","\n",
    "S","q","l","B","a","s","e","L","e","x","e","r",".","p","r","o","t","o","t","y","p","e",".","d","o","l","l","a","r","_","t","a","g","s"," ","="," ","[","]",";","\n",
    "\n",
    "/","*","*","\n",
    " ","*"," ","C","h","e","c","k"," ","i","f"," ","c","u","r","r","e","n","t"," ","t","o","k","e","n"," ","f","o","r","m","s"," ","a"," ","v","a","l","i","d"," ","d","e","c","i","m","a","l"," ","n","u","m","b","e","r",".","\n",
    " ","*"," ","R","e","t","u","r","n","s"," ","f","a","l","s","e"," ","i","f"," ","f","o","l","l","o","w","e","d"," ","b","y"," ","l","e","t","t","e","r","/","d","i","g","i","t","/","u","n","d","e","r","s","c","o","r","e"," ","(","w","o","u","l","d"," ","b","e"," ","p","a","r","t"," ","o","f"," ","i","d","e","n","t","i","f","i","e","r",")",".","\n",
    " ","*","/","\n",
    "S","q","l","B","a","s","e","L","e","x","e","r",".","p","r","o","t","o","t","y","p","e",".","i","s","V","a","l","i","d","D","e","c","i","m","a","l"," ","="," ","f","u","n","c","t","i","o","n","(",")"," ","{","\n",
    " "," "," "," ","c","o","n","s","t"," ","n","e","x","t","C","h","a","r"," ","="," ","t","h","i","s",".","_","i","n","p","u","t",".","L","A","(","1",")",";","\n",
    " "," "," "," ","/","/"," ","C","h","e","c","k"," ","i","f"," ","n","e","x","t"," ","c","h","a","r"," ","i","s"," ","A","-","Z",","," ","a","-","z",","," ","0","-","9",","," ","o","r"," ","_","\n",
    " "," "," "," ","i","f"," ","(","(","n","e","x","t","C","h","a","r"," ",">","="," ","6","5"," ","&","&"," ","n","e","x","t","C","h","a","r"," ","<","="," ","9","0",")"," ","|","|"," "," "," ","/","/"," ","A","-","Z","\n",
    " "," "," "," "," "," "," "," ","(","n","e","x","t","C","h","a","r"," ",">","="," ","9","7"," ","&","&"," ","n","e","x","t","C","h","a","r"," ","<","="," ","1","2","2",")"," ","|","|"," "," ","/","/"," ","a","-","z","\n",
    " "," "," "," "," "," "," "," ","(","n","e","x","t","C","h","a","r"," ",">","="," ","4","8"," ","&","&"," ","n","e","x","t","C","h","a","r"," ","<","="," ","5","7",")"," ","|","|"," "," "," ","/","/"," ","0","-","9","\n",
    " "," "," "," "," "," "," "," ","n","e","x","t","C","h","a","r"," ","=","=","="," ","9","5",")"," ","{"," "," "," "," "," "," "," "," "," "," "," "," "," "," "," "," "," "," "," "," "," "," "," ","/","/"," ","_","\n",
    " "," "," "," "," "," "," "," ","r","e","t","u","r","n"," ","f","a","l","s","e",";","\n",
    " "," "," "," ","}","\n",
    " "," "," "," ","r","e","t","u","r","n"," ","t","r","u","e",";","\n",
    "}",";","\n",
    "\n",
    "/","*","*","\n",
    " ","*"," ","C","h","e","c","k"," ","i","f"," ","b","l","o","c","k"," ","c","o","m","m","e","n","t"," ","i","s"," ","a"," ","q","u","e","r","y"," ","h","i","n","t"," ","(","s","t","a","r","t","s"," ","w","i","t","h"," ","+",")",".","\n",
    " ","*"," ","H","i","n","t","s"," ","l","o","o","k"," ","l","i","k","e",":"," ","/","-","-","+"," ","B","R","O","A","D","C","A","S","T","(","t",")"," ","-","-","/"," "," ","(","u","s","i","n","g"," ","/","*","+"," ","i","n"," ","a","c","t","u","a","l"," ","S","Q","L",")","\n",
    " ","*","/","\n",
    "S","q","l","B","a","s","e","L","e","x","e","r",".","p","r","o","t","o","t","y","p","e",".","i","s","H","i","n","t"," ","="," ","f","u","n","c","t","i","o","n","(",")"," ","{","\n",
    " "," "," "," ","r","e","t","u","r","n"," ","t","h","i","s",".","_","i","n","p","u","t",".","L","A","(","1",")"," ","=","=","="," ","4","3",";"," ","/","/"," ","'","+","'","\n",
    "}",";","\n",
    "\n",
    "/","*","*","\n",
    " ","*"," ","C","h","e","c","k"," ","i","f"," ",">",">"," ","i","s"," ","s","h","i","f","t"," ","o","p","e","r","a","t","o","r"," ","v","s"," ","n","e","s","t","e","d"," ","g","e","n","e","r","i","c"," ","c","l","o","s","i","n","g",".","\n",
    " ","*"," ","I","n","s","i","d","e"," ","M","A","P","<","K",","," ","A","R","R","A","Y","<","V",">",">",","," ","t","h","e"," ",">",">"," ","s","h","o","u","l","d"," ","b","e"," ","t","w","o"," ","s","e","p","a","r","a","t","e"," ",">"," ","t","o","k","e","n","s",".","\n",
    " ","*","/","\n",
    "S","q","l","B","a","s","e","L","e","x","e","r",".","p","r","o","t","o","t","y","p","e",".","i","s","S","h","i","f","t","R","i","g","h","t","O","p","e","r","a","t","o","r"," ","="," ","f","u","n","c","t","i","o","n","(",")"," ","{","\n",
    " "," "," "," ","r","e","t","u","r","n"," ","t","h","i","s",".","c","o","m","p","l","e","x","_","t","y","p","e","_","l","e","v","e","l","_","c","o","u","n","t","e","r"," ","=","=","="," ","0",";","\n",
    "}",";","\n",
    "\n",
    "/","*","*","\n",
    " ","*"," ","I","n","c","r","e","m","e","n","t"," ","c","o","u","n","t","e","r"," ","w","h","e","n"," ","e","n","t","e","r","i","n","g"," ","c","o","m","p","l","e","x"," ","t","y","p","e",":"," ","M","A","P","<",","," ","A","R","R","A","Y","<",","," ","S","T","R","U","C","T","<","\n",
    " ","*","/","\n",
    "S","q","l","B","a","s","e","L","e","x","e","r",".","p","r","o","t","o","t","y","p","e",".","i","n","c","C","o","m","p","l","e","x","T","y","p","e","L","e","v","e","l","C","o","u","n","t","e","r"," ","="," ","f","u","n","c","t","i","o","n","(",")"," ","{","\n",
    " "," "," "," ","t","h","i","s",".","c","o","m","p","l","e","x","_","t","y","p","e","_","l","e","v","e","l","_","c","o","u","n","t","e","r","+","+",";","\n",
    "}",";","\n",
    "\n",
    "/","*","*","\n",
    " ","*"," ","D","e","c","r","e","m","e","n","t"," ","c","o","u","n","t","e","r"," ","w","h","e","n"," ",">"," ","c","l","o","s","e","s"," ","a"," ","c","o","m","p","l","e","x"," ","t","y","p","e",".","\n",
    " ","*","/","\n",
    "S","q","l","B","a","s","e","L","e","x","e","r",".","p","r","o","t","o","t","y","p","e",".","d","e","c","C","o","m","p","l","e","x","T","y","p","e","L","e","v","e","l","C","o","u","n","t","e","r"," ","="," ","f","u","n","c","t","i","o","n","(",")"," ","{","\n",
    " "," "," "," ","i","f"," ","(","t","h","i","s",".","c","o","m","p","l","e","x","_","t","y","p","e","_","l","e","v","e","l","_","c","o","u","n","t","e","r"," ",">"," ","0",")"," ","{","\n",
    " "," "," "," "," "," "," "," ","t","h","i","s",".","c","o","m","p","l","e","x","_","t","y","p","e","_","l","e","v","e","l","_","c","o","u","n","t","e","r","-","-",";","\n",
    " "," "," "," ","}","\n",
    "}",";","\n",
    "\n",
    "/","*","*","\n",
    " ","*"," ","M","a","r","k"," ","t","h","a","t"," ","a","n"," ","u","n","c","l","o","s","e","d"," ","b","l","o","c","k"," ","c","o","m","m","e","n","t"," ","w","a","s"," ","e","n","c","o","u","n","t","e","r","e","d"," ","(","f","o","r"," ","e","r","r","o","r"," ","r","e","p","o","r","t","i","n","g",")",".","\n",
    " ","*","/","\n",
    "S","q","l","B","a","s","e","L","e","x","e","r",".","p","r","o","t","o","t","y","p","e",".","m","a","r","k","U","n","c","l","o","s","e","d","C","o","m","m","e","n","t"," ","="," ","f","u","n","c","t","i","o","n","(",")"," ","{","\n",
    " "," "," "," ","t","h","i","s",".","h","a","s","_","u","n","c","l","o","s","e","d","_","b","r","a","c","k","e","t","e","d","_","c","o","m","m","e","n","t"," ","="," ","t","r","u","e",";","\n",
    "}",";","\n",
    "\n",
    "/","*","*","\n",
    " ","*"," ","P","u","s","h"," ","d","o","l","l","a","r","-","q","u","o","t","e","d"," ","s","t","r","i","n","g"," ","t","a","g"," ","o","n","t","o"," ","s","t","a","c","k",".","\n",
    " ","*"," ","F","o","r"," ","$","t","a","g","$","c","o","n","t","e","n","t","$","t","a","g","$",","," ","p","u","s","h","e","s"," ","\"","t","a","g","\"",".","\n",
    " ","*","/","\n",
    "S","q","l","B","a","s","e","L","e","x","e","r",".","p","r","o","t","o","t","y","p","e",".","p","u","s","h","D","o","l","l","a","r","T","a","g"," ","="," ","f","u","n","c","t","i","o","n","(",")"," ","{","\n",
    " "," "," "," ","t","h","i","s",".","d","o","l","l","a","r","_","t","a","g","s",".","p","u","s","h","(","t","h","i","s",".","g","e","t","T","e","x","t","(",")",")",";","\n",
    "}",";","\n",
    "\n",
    "/","*","*","\n",
    " ","*"," ","P","o","p"," ","d","o","l","l","a","r","-","q","u","o","t","e","d"," ","s","t","r","i","n","g"," ","t","a","g"," ","f","r","o","m"," ","s","t","a","c","k",".","\n",
    " ","*","/","\n",
    "S","q","l","B","a","s","e","L","e","x","e","r",".","p","r","o","t","o","t","y","p","e",".","p","o","p","D","o","l","l","a","r","T","a","g"," ","="," ","f","u","n","c","t","i","o","n","(",")"," ","{","\n",
    " "," "," "," ","i","f"," ","(","t","h","i","s",".","d","o","l","l","a","r","_","t","a","g","s",".","l","e","n","g","t","h"," ",">"," ","0",")"," ","{","\n",
    " "," "," "," "," "," "," "," ","t","h","i","s",".","d","o","l","l","a","r","_","t","a","g","s",".","p","o","p","(",")",";","\n",
    " "," "," "," ","}","\n",
    "}",";","\n",
    "\n",
    "/","*","*","\n",
    " ","*"," ","C","h","e","c","k"," ","i","f"," ","c","u","r","r","e","n","t"," ","t","e","x","t"," ","m","a","t","c","h","e","s"," ","t","a","g"," ","o","n"," ","t","o","p"," ","o","f"," ","s","t","a","c","k",".","\n",
    " ","*","/","\n",
    "S","q","l","B","a","s","e","L","e","x","e","r",".","p","r","o","t","o","t","y","p","e",".","m","a","t","c","h","e","s","D","o","l","l","a","r","T","a","g"," ","="," ","f","u","n","c","t","i","o","n","(",")"," ","{","\n",
    " "," "," "," ","i","f"," ","(","t","h","i","s",".","d","o","l","l","a","r","_","t","a","g","s",".","l","e","n","g","t","h"," ","=","=","="," ","0",")"," ","r","e","t","u","r","n"," ","f","a","l","s","e",";","\n",
    " "," "," "," ","r","e","t","u","r","n"," ","t","h","i","s",".","g","e","t","T","e","x","t","(",")"," ","=","=","="," ","t","h","i","s",".","d","o","l","l","a","r","_","t","a","g","s","[","t","h","i","s",".","d","o","l","l","a","r","_","t","a","g","s",".","l","e","n","g","t","h"," ","-"," ","1","]",";","\n",
    "}",";","\n">>

parser_predicates_js ==
    <<"\n",
    "\n",
    "/","/"," ","=","=","=","=","=","=","=","=","=","=","=","=","=","=","=","=","=","=","=","=","=","=","=","=","=","=","=","=","=","=","=","=","=","=","=","=","=","=","=","=","=","=","=","=","=","=","=","=","=","=","=","=","=","=","=","=","=","=","=","=","=","=","=","=","=","=","=","=","=","=","=","=","=","=","=","=","\n",
    "/","/"," ","P","a","r","s","e","r"," ","P","r","e","d","i","c","a","t","e"," ","I","m","p","l","e","m","e","n","t","a","t","i","o","n","s"," ","(","f","r","o","m"," ","J","a","v","a"," ","@","m","e","m","b","e","r","s",")","\n",
    "/","/"," ","B","a","s","e","d"," ","o","n"," ","s","p","a","r","k","f","m","t","-","c","o","r","e","/","K","N","O","W","N","_","P","R","E","D","I","C","A","T","E","S",".","j","s","o","n","\n",
    "/","/"," ","=","=","=","=","=","=","=","=","=","=","=","=","=","=","=","=","=","=","=","=","=","=","=","=","=","=","=","=","=","=","=","=","=","=","=","=","=","=","=","=","=","=","=","=","=","=","=","=","=","=","=","=","=","=","=","=","=","=","=","=","=","=","=","=","=","=","=","=","=","=","=","=","=","=","=","=","\n",
    "\n",
    "/","/"," ","C","o","n","f","i","g","u","r","a","t","i","o","n"," ","f","l","a","g","s"," ","(","c","a","n"," ","b","e"," ","s","e","t"," ","b","e","f","o","r","e"," ","p","a","r","s","i","n","g"," ","t","o"," ","c","h","a","n","g","e"," ","b","e","h","a","v","i","o","r",")","\n",
    "S","q","l","B","a","s","e","P","a","r","s","e","r",".","p","r","o","t","o","t","y","p","e",".","l","e","g","a","c","y","_","s","e","t","o","p","s","_","p","r","e","c","e","d","e","n","c","e","_","e","n","a","b","l","e","d"," ","="," ","f","a","l","s","e",";","\n",
    "S","q","l","B","a","s","e","P","a","r","s","e","r",".","p","r","o","t","o","t","y","p","e",".","l","e","g","a","c","y","_","e","x","p","o","n","e","n","t","_","l","i","t","e","r","a","l","_","a","s","_","d","e","c","i","m","a","l","_","e","n","a","b","l","e","d"," ","="," ","f","a","l","s","e",";","\n",
    "S","q","l","B","a","s","e","P","a","r","s","e","r",".","p","r","o","t","o","t","y","p","e",".","S","Q","L","_","s","t","a","n","d","a","r","d","_","k","e","y","w","o","r","d","_","b","e","h","a","v","i","o","r"," ","="," ","f","a","l","s","e",";","\n",
    "S","q","l","B","a","s","e","P","a","r","s","e","r",".","p","r","o","t","o","t","y","p","e",".","d","o","u","b","l","e","_","q","u","o","t","e","d","_","i","d","e","n","t","i","f","i","e","r","s"," ","="," ","f","a","l","s","e",";","\n",
    "S","q","l","B","a","s","e","P","a","r","s","e","r",".","p","r","o","t","o","t","y","p","e",".","p","a","r","a","m","e","t","e","r","_","s","u","b","s","t","i","t","u","t","i","o","n","_","e","n","a","b","l","e","d"," ","="," ","t","r","u","e",";","\n",
    "S","q","l","B","a","s","e","P","a","r","s","e","r",".","p","r","o","t","o","t","y","p","e",".","l","e","g","a","c","y","_","i","d","e","n","t","i","f","i","e","r","_","c","l","a","u","s","e","_","o","n","l","y"," ","="," ","f","a","l","s","e",";","\n",
    "S","q","l","B","a","s","e","P","a","r","s","e","r",".","p","r","o","t","o","t","y","p","e",".","s","i","n","g","l","e","_","c","h","a","r","a","c","t","e","r","_","p","i","p","e","_","o","p","e","r","a","t","o","r","_","e","n","a","b","l","e","d"," ","="," ","t","r","u","e",";","\n",
    "\n",
    "/","*","*","\n",
    " ","*"," ","C","h","e","c","k"," ","i","f"," ","|",">"," ","p","i","p","e"," ","o","p","e","r","a","t","o","r"," ","i","s"," ","s","t","a","r","t","i","n","g",".","\n",
    " ","*"," ","L","o","o","k","s"," ","a","h","e","a","d"," ","t","o"," ","s","e","e"," ","i","f"," ","P","I","P","E"," ","i","s"," ","f","o","l","l","o","w","e","d"," ","b","y"," ","G","T",".","\n",
    " ","*","/","\n",
    "S","q","l","B","a","s","e","P","a","r","s","e","r",".","p","r","o","t","o","t","y","p","e",".","i","s","O","p","e","r","a","t","o","r","P","i","p","e","S","t","a","r","t"," ","="," ","f","u","n","c","t","i","o","n","(",")"," ","{","\n",
    " "," "," "," ","/","/"," ","C","h","e","c","k"," ","i","f"," ","n","e","x","t"," ","t","o","k","e","n"," ","a","f","t","e","r"," ","P","I","P","E"," ","i","s"," ","G","T"," ","(",">",")","\n",
    " "," "," "," ","r","e","t","u","r","n"," ","t","h","i","s",".","_","i","n","p","u","t",".","L","A","(","2",")"," ","=","=","="," ","S","q","l","B","a","s","e","P","a","r","s","e","r",".","G","T",";","\n",
    "}",";","\n">>

\* str.rstrip()
RECURSIVE StrippedLen(_, _)
StrippedLen(s, n) ==
    IF n > 0 /\ s[n] \in Whitespace THEN StrippedLen(s, n - 1) ELSE n

rstrip(s) == SubSeq(s, 1, StrippedLen(s, Len(s)))

\* an append that loses the block
AppendBlockLost(content, block) == rstrip(content)

\* content.rstrip() + block
AppendBlock(content, block) == rstrip(content) \o block

\* the artifact and the block of "Process Lexer" and of "Process Parser"
InjectPaths == <<LexerJs, ParserJs>>

\* the lexer's block appended to both artifacts
InjectBlocksLexerTwice == <<lexer_predicates_js, lexer_predicates_js>>

InjectBlocks == <<lexer_predicates_js, parser_predicates_js>>

\* the function run with no other process at the files: [ok, fs]
add_predicate_implementations(f) ==
    IF ~f[LexerJs].exists THEN [ok |-> FALSE, fs |-> f]
    ELSE LET f1 == WriteText(f, LexerJs,
                             AppendBlock(read_text(f, LexerJs), InjectBlocks[1]))
         IN  IF ~f1[ParserJs].exists THEN [ok |-> FALSE, fs |-> f1]
             ELSE [ok |-> TRUE,
                   fs |-> WriteText(f1, ParserJs,
                                    AppendBlock(read_text(f1, ParserJs), InjectBlocks[2]))]

(***************************************************************************)
(* verify_predicates                                                       *)
(***************************************************************************)
required_lexer_predicates ==
    {<<"i","s","V","a","l","i","d","D","e","c","i","m","a","l">>, <<"i","s","H","i","n","t">>, <<"i","s","S","h","i","f","t","R","i","g","h","t","O","p","e","r","a","t","o","r">>,
     <<"i","n","c","C","o","m","p","l","e","x","T","y","p","e","L","e","v","e","l","C","o","u","n","t","e","r">>, <<"d","e","c","C","o","m","p","l","e","x","T","y","p","e","L","e","v","e","l","C","o","u","n","t","e","r">>,
     <<"m","a","r","k","U","n","c","l","o","s","e","d","C","o","m","m","e","n","t">>, <<"p","u","s","h","D","o","l","l","a","r","T","a","g">>, <<"p","o","p","D","o","l","l","a","r","T","a","g">>, <<"m","a","t","c","h","e","s","D","o","l","l","a","r","T","a","g">>}

required_parser_predicates == {<<"i","s","O","p","e","r","a","t","o","r","P","i","p","e","S","t","a","r","t">>}

required_parser_flags ==
    {<<"l","e","g","a","c","y","_","s","e","t","o","p","s","_","p","r","e","c","e","d","e","n","c","e","_","e","n","a","b","l","e","d">>, <<"l","e","g","a","c","y","_","e","x","p","o","n","e","n","t","_","l","i","t","e","r","a","l","_","a","s","_","d","e","c","i","m","a","l","_","e","n","a","b","l","e","d">>,
     <<"S","Q","L","_","s","t","a","n","d","a","r","d","_","k","e","y","w","o","r","d","_","b","e","h","a","v","i","o","r">>, <<"d","o","u","b","l","e","_","q","u","o","t","e","d","_","i","d","e","n","t","i","f","i","e","r","s">>,
     <<"p","a","r","a","m","e","t","e","r","_","s","u","b","s","t","i","t","u","t","i","o","n","_","e","n","a","b","l","e","d">>, <<"l","e","g","a","c","y","_","i","d","e","n","t","i","f","i","e","r","_","c","l","a","u","s","e","_","o","n","l","y">>,
     <<"s","i","n","g","l","e","_","c","h","a","r","a","c","t","e","r","_","p","i","p","e","_","o","p","e","r","a","t","o","r","_","e","n","a","b","l","e","d">>}

\* the text before the group in r'SqlBaseLexer\.prototype\.(\w+)\s*=' and in
\* r'SqlBaseParser\.prototype\.(\w+)\s*='
LexerImplPrefix == <<"S","q","l","B","a","s","e","L","e","x","e","r",".","p","r","o","t","o","t","y","p","e",".">>
ParserImplPrefix == <<"S","q","l","B","a","s","e","P","a","r","s","e","r",".","p","r","o","t","o","t","y","p","e",".">>

\* r'<prefix>(\w+)\s*=' matches at i, where the prefix occurs.  Two matches never overlap (a
\* match holds the class name only at its start), so the matches re.findall
\* returns are exactly the positions where the pattern matches.
ImplAt(content, i, prefix) ==
    LET n == i + Len(prefix)
        e == WordEnd(content, n)
    IN  e > n /\ Has(content, SkipWhile(content, e, Whitespace), "=")

\* set(re.findall(r'<prefix>(\w+)\s*=', content))
FindImpls(content, prefix) ==
    { SubSeq(content, i + Len(prefix), WordEnd(content, i + Len(prefix)) - 1) :
        i \in {k \in Occurrences(content, prefix) : ImplAt(content, k, prefix)} }

\* lit in content
Contains(content, lit) == Occurrences(content, lit) # {}

\* the set difference taken the wrong way round
MissingReversed(required, impls) == impls \ required

\* set(required) - impls
Missing(required, impls) == required \ impls

\* [f for f in required_parser_flags if f'prototype.{f}' not in parser_content]
FlagPrefix == <<"p","r","o","t","o","t","y","p","e",".">>

MissingFlags(parser_content) ==
    {f \in required_parser_flags : ~Contains(parser_content, FlagPrefix \o f)}

NoReport == [missing_lexer |-> {}, missing_parser_predicates |-> {},
             missing_parser_flags |-> {}]

\* the three collections the function computes from the two texts
CoverageOf(lexer_content, parser_content) ==
    [missing_lexer |->
         Missing(required_lexer_predicates, FindImpls(lexer_content, LexerImplPrefix)),
     missing_parser_predicates |->
         Missing(required_parser_predicates, FindImpls(parser_content, ParserImplPrefix)),
     missing_parser_flags |-> MissingFlags(parser_content)]

\* issues is empty
NoIssues(r) ==
    r.missing_lexer = {} /\ r.missing_parser_predicates = {} /\ r.missing_parser_flags = {}

\* read_text raises FileNotFoundError for a file that does not exist; nothing
\* in verify_predicates or main catches it.  The function run with no other
\* process at the files: [raised, ok, report]
verify_predicates(f) ==
    IF ~f[LexerJs].exists \/ ~f[ParserJs].exists
    THEN [raised |-> TRUE, ok |-> FALSE, report |-> NoReport]
    ELSE LET r == CoverageOf(read_text(f, LexerJs), read_text(f, ParserJs))
         IN  [raised |-> FALSE, ok |-> NoIssues(r), report |-> r]

(***************************************************************************)
(* The lexer members of lexer_predicates_js, as JavaScript runs them.      *)
(* Reading this.x finds the instance's own property x, else the            *)
(* prototype's; assigning this.x sets the instance's own property; an      *)
(* array is an object held by reference.                                   *)
(***************************************************************************)
Lexers == 1..NumLexers

\* the array object that "SqlBaseLexer.prototype.dollar_tags = [];" creates
ProtoArray == "prototype.dollar_tags"

\* the three State assignments on the prototype
LexerPrototype ==
    [has_unclosed_bracketed_comment |-> FALSE,
     complex_type_level_counter |-> 0,
     dollar_tags |-> ProtoArray]

\* own properties of a new instance: none ({} is "no own property")
NoOwn ==
    [has_unclosed_bracketed_comment |-> {},
     complex_type_level_counter |-> {},
     dollar_tags |-> {}]

\* property lookup this.<field>
Get(o, field) ==
    IF o[field] = {} THEN LexerPrototype[field] ELSE CHOOSE v \in o[field] : TRUE

\* what getText() may return
Texts == {"$a$", "$b$"}

NoCall == [inst |-> 0, op |-> "none", result |-> {}]

\* a decrement without the "> 0" test
DecCounterUnguarded(o) ==
    [o EXCEPT !.complex_type_level_counter = {Get(o, "complex_type_level_counter") - 1}]

\* the counter after decComplexTypeLevelCounter: own properties of the instance
DecCounter(o) ==
    IF Get(o, "complex_type_level_counter") > 0
    THEN [o EXCEPT !.complex_type_level_counter = {Get(o, "complex_type_level_counter") - 1}]
    ELSE o

isShiftRightOperator(i) ==
    /\ lastCall' = [inst |-> i, op |-> "isShiftRightOperator",
                    result |-> {Get(own[i], "complex_type_level_counter") = 0}]
    /\ UNCHANGED <<own, heap>>

incComplexTypeLevelCounter(i) ==
    /\ Get(own[i], "complex_type_level_counter") < MaxLevel
    /\ own' = [own EXCEPT ![i].complex_type_level_counter =
                   {Get(own[i], "complex_type_level_counter") + 1}]
    /\ lastCall' = [inst |-> i, op |-> "incComplexTypeLevelCounter", result |-> {}]
    /\ UNCHANGED heap

decComplexTypeLevelCounter(i) ==
    /\ own' = [own EXCEPT ![i] = DecCounter(own[i])]
    /\ lastCall' = [inst |-> i, op |-> "decComplexTypeLevelCounter", result |-> {}]
    /\ UNCHANGED heap

markUnclosedComment(i) ==
    /\ own' = [own EXCEPT ![i].has_unclosed_bracketed_comment = {TRUE}]
    /\ lastCall' = [inst |-> i, op |-> "markUnclosedComment", result |-> {}]
    /\ UNCHANGED heap

pushDollarTag(i, text) ==
    /\ Len(heap[Get(own[i], "dollar_tags")]) < MaxTags
    /\ heap' = [heap EXCEPT ![Get(own[i], "dollar_tags")] = Append(@, text)]
    /\ lastCall' = [inst |-> i, op |-> "pushDollarTag", result |-> {}]
    /\ UNCHANGED own

popDollarTag(i) ==
    /\ heap' = [heap EXCEPT ![Get(own[i], "dollar_tags")] =
                    IF Len(@) > 0 THEN SubSeq(@, 1, Len(@) - 1) ELSE @]
    /\ lastCall' = [inst |-> i, op |-> "popDollarTag", result |-> {}]
    /\ UNCHANGED own

\* the value matchesDollarTag returns on instance state o when getText() is text
MatchesDollarTag(o, h, text) ==
    LET dollar_tags == h[Get(o, "dollar_tags")]
    IN  IF Len(dollar_tags) = 0 THEN FALSE
        ELSE text = dollar_tags[Len(dollar_tags)]

matchesDollarTag(i, text) ==
    /\ lastCall' = [inst |-> i, op |-> "matchesDollarTag",
                    result |-> {MatchesDollarTag(own[i], heap, text)}]
    /\ UNCHANGED <<own, heap>>

(***************************************************************************)
(* main: the driver over the four steps.                                   *)
(***************************************************************************)
steps == <<"Transform", "Generate", "Inject", "Verify">>

\* a main whose loop does not return on a failed step
NextPcNoReturn(k, ok) ==
    IF k < Len(steps) THEN steps[k + 1] ELSE "Done"

\* the for loop of main after step k returned ok: where control goes next
NextPc(k, ok) ==
    IF ~ok THEN "Failed"
    ELSE IF k < Len(steps) THEN steps[k + 1]
    ELSE "Done"

\* and what main has returned by then: {1} from inside the loop, {0} after it
MainReturn(k, ok) ==
    IF ~ok THEN {1}
    ELSE IF k < Len(steps) THEN {}
    ELSE {0}

\* where a step stands when main calls it: before the exists() test of its first
\* file, or, in verify_predicates, before the first read_text
StartOf(stage) ==
    IF stage = "Verify" THEN [op |-> "read", k |-> 1] ELSE [op |-> "exists", k |-> 1]

\* missing: a file of the pipeline that the step needed was not there when the
\* step came to it
Called(k, result, missing) ==
    [stage |-> steps[k], result |-> result, missing |-> missing]

\* step k returned ok to main
Returns(k, ok, missing) ==
    /\ pc' = NextPc(k, ok)
    /\ ret' = MainReturn(k, ok)
    /\ trace' = Append(trace, Called(k, IF ok THEN "ok" ELSE "fail", missing))
    /\ at' = StartOf(pc')
    /\ local' = << >>

\* step k raised FileNotFoundError: the exception leaves main, which returns
\* nothing
Raises(k, missing) ==
    /\ pc' = "Raised"
    /\ ret' = {}
    /\ trace' = Append(trace, Called(k, "raise", missing))
    /\ at' = StartOf(pc')
    /\ local' = << >>

\* the step goes on to its next file operation
Continues(op, k) ==
    /\ at' = [op |-> op, k |-> k]
    /\ UNCHANGED <<pc, ret, trace>>

\* source grammars main may find, with "\n", "\r\n" and "\r" line ends
LexerGrammars ==
    {<<"@","m","e","m","b","e","r","s"," ","{","i","n","t"," ","x",";","}","\n","f","o","o"," ",":"," ","{","i","s","H","i","n","t","(",")","}","?"," ","B","A","R"," ",";">>,
     <<"l","e","x","e","r"," ","g","r","a","m","m","a","r"," ","L",";","\r","\n","@","h","e","a","d","e","r"," ","{","i","m","p","o","r","t"," ","a",";","}","\r","\n","T"," ",":"," ","{","t","a","g","s",".","p","u","s","h","(","g","e","t","T","e","x","t","(",")",")",";","}"," ",";","\r">>}

ParserGrammars == {<<"@","m","e","m","b","e","r","s"," ","{"," ","{","}"," ","}","\r","q"," ",":"," ","{","!","l","e","g","a","c","y","_","i","d","e","n","t","i","f","i","e","r","_","c","l","a","u","s","e","_","o","n","l","y","}","?"," ","X"," ",";">>}

\* texts the external compiler may write: an empty class, a definition of another
\* name followed by trailing whitespace of several kinds, a text ending inside a
\* member reference; with "\n", "\r\n" and "\r" line ends
LexerOutputs ==
    {<<"c","l","a","s","s"," ","S","q","l","B","a","s","e","L","e","x","e","r","\r","\n","{","}","\r","\n">>,
     <<"S","q","l","B","a","s","e","L","e","x","e","r",".","p","r","o","t","o","t","y","p","e",".","c","a","f","é","","="," ","1",";"," ","\n"," ","">>,
     <<"x","(","S","q","l","B","a","s","e","L","e","x","e","r",".","p","r","o","t","o","t","y","p","e",".","i","s","H","i","n","t">>}

ParserOutputs ==
    {<<"c","l","a","s","s"," ","S","q","l","B","a","s","e","P","a","r","s","e","r"," ","{","}","\n">>,
     <<"t","h","i","s","\r",".","i","s","O","p","e","r","a","t","o","r","P","i","p","e","S","t","a","r","t","(",")">>,
     <<"S","q","l","B","a","s","e","P","a","r","s","e","r",".","p","r","o","t","o","t","y","p","e",".","l","e","g","a","c","y","_","i","d","e","n","t","i","f","i","e","r","_","c","l","a","u","s","e","_","o","n","l","y"," ","\n","">>}

\* transform_grammar, line 157: source_path.exists()
TransformExists ==
    /\ pc = "Transform" /\ at.op = "exists"
    /\ IF fs[TransformPairs[at.k][1]].exists
       THEN Continues("read", at.k) /\ UNCHANGED local
       ELSE Returns(1, FALSE, TRUE)
    /\ UNCHANGED <<fs, report, run, removed, deleted>>
    /\ UNCHANGED textVars /\ UNCHANGED jsVars

\* line 161: source_path.read_text
TransformRead ==
    /\ pc = "Transform" /\ at.op = "read"
    /\ IF fs[TransformPairs[at.k][1]].exists
       THEN Continues("write", at.k) /\ local' = read_text(fs, TransformPairs[at.k][1])
       ELSE Raises(1, TRUE)
    /\ UNCHANGED <<fs, report, run, removed, deleted>>
    /\ UNCHANGED textVars /\ UNCHANGED jsVars

\* lines 165 to 171: the text is transformed and written; the loop goes on to the
\* next file or the function returns True
TransformWrite ==
    /\ pc = "Transform" /\ at.op = "write"
    /\ fs' = WriteText(fs, TransformPairs[at.k][2], TransformText(local))
    /\ IF at.k < Len(TransformPairs)
       THEN Continues("exists", at.k + 1) /\ UNCHANGED local
       ELSE Returns(1, TRUE, FALSE)
    /\ UNCHANGED <<report, run, removed, deleted>>
    /\ UNCHANGED textVars /\ UNCHANGED jsVars

\* generate_antlr, line 186: ANTLR_JAR.exists()
GenerateExists ==
    /\ pc = "Generate" /\ at.op = "exists"
    /\ IF fs[ANTLR_JAR].exists
       THEN Continues("run", 1) /\ UNCHANGED local
       ELSE Returns(2, FALSE, TRUE)
    /\ UNCHANGED <<fs, report, run, removed, deleted>>
    /\ UNCHANGED textVars /\ UNCHANGED jsVars

\* lines 201 to 217: subprocess.run, with no try around it, and the test of its
\* returncode
GenerateRun ==
    /\ pc = "Generate" /\ at.op = "run"
    /\ \E java \in BOOLEAN, exit \in {0, 1},
          lexer_js \in LexerOutputs, parser_js \in ParserOutputs :
          LET r == RunCompiler(fs, java, exit, lexer_js, parser_js)
          IN  /\ fs' = r.fs
              /\ IF r.raised THEN Raises(2, FALSE)
                 ELSE Returns(2, r.ok, \E p \in CompilerInputs : ~fs[p].exists)
    /\ UNCHANGED <<report, run, removed, deleted>>
    /\ UNCHANGED textVars /\ UNCHANGED jsVars

\* add_predicate_implementations, lines 228 and 338: the artifact's exists()
InjectExists ==
    /\ pc = "Inject" /\ at.op = "exists"
    /\ IF fs[InjectPaths[at.k]].exists
       THEN Continues("read", at.k) /\ UNCHANGED local
       ELSE Returns(3, FALSE, TRUE)
    /\ UNCHANGED <<fs, report, run, removed, deleted>>
    /\ UNCHANGED textVars /\ UNCHANGED jsVars

\* lines 232 and 342: the artifact's read_text
InjectRead ==
    /\ pc = "Inject" /\ at.op = "read"
    /\ IF fs[InjectPaths[at.k]].exists
       THEN Continues("write", at.k) /\ local' = read_text(fs, InjectPaths[at.k])
       ELSE Raises(3, TRUE)
    /\ UNCHANGED <<fs, report, run, removed, deleted>>
    /\ UNCHANGED textVars /\ UNCHANGED jsVars

\* lines 331 to 333 and 371 to 373: the block is appended and the artifact written;
\* the function goes on to the parser or returns True
InjectWrite ==
    /\ pc = "Inject" /\ at.op = "write"
    /\ fs' = WriteText(fs, InjectPaths[at.k], AppendBlock(local, InjectBlocks[at.k]))
    /\ IF at.k < Len(InjectPaths)
       THEN Continues("exists", at.k + 1) /\ UNCHANGED local
       ELSE Returns(3, TRUE, FALSE)
    /\ UNCHANGED <<report, run, removed, deleted>>
    /\ UNCHANGED textVars /\ UNCHANGED jsVars

\* verify_predicates, line 409: lexer_path.read_text, with no exists() before it;
\* line 421: parser_path.read_text, then the three collections and the return
VerifyRead ==
    /\ pc = "Verify" /\ at.op = "read"
    /\ IF ~fs[InjectPaths[at.k]].exists
       THEN Raises(4, TRUE) /\ UNCHANGED report
       ELSE IF at.k = 1
       THEN /\ Continues("read", 2)
            /\ local' = read_text(fs, LexerJs)
            /\ UNCHANGED report
       ELSE LET r == CoverageOf(local, read_text(fs, ParserJs))
            IN  Returns(4, NoIssues(r), FALSE) /\ report' = r
    /\ UNCHANGED <<fs, run, removed, deleted>>
    /\ UNCHANGED textVars /\ UNCHANGED jsVars

\* main is invoked again on the files the last run left
Restart ==
    /\ pc \in {"Done", "Failed", "Raised"}
    /\ run < MaxRuns
    /\ run' = run + 1
    /\ pc' = steps[1]
    /\ at' = StartOf(steps[1])
    /\ trace' = << >>
    /\ ret' = {}
    /\ removed' = {}
    /\ UNCHANGED <<local, fs, report, deleted>>
    /\ UNCHANGED textVars /\ UNCHANGED jsVars

\* another process deletes a file while main runs, between any two file
\* operations of the running step
EnvDelete ==
    /\ pc \in {"Transform", "Generate", "Inject", "Verify"}
    /\ deleted < MaxDeleted
    /\ \E p \in Files :
          /\ fs[p].exists
          /\ fs' = [fs EXCEPT ![p] = NoFile]
    /\ deleted' = deleted + 1
    /\ UNCHANGED <<pc, at, local, trace, ret, report, run, removed>>
    /\ UNCHANGED textVars /\ UNCHANGED jsVars

\* the text of the statement "<prefix><name> = function() { ... };" is
\* taken out of content
WithoutImpl(content, prefix, name) ==
    LET head == prefix \o name \o <<" ","="," ","f","u","n","c","t","i","o","n">>
        start == CHOOSE i \in Occurrences(content, head) : TRUE
        ends == {j \in Occurrences(content, <<"\n","}",";">>) : j > start}
        close == CHOOSE j \in ends : \A k \in ends : j <= k
    IN  SubSeq(content, 1, start - 1) \o From(content, close + 3)

\* one catalog method's injected implementation is removed before Verify runs
RemoveImplementation ==
    /\ pc = "Verify" /\ at = StartOf("Verify")
    /\ removed = {}
    /\ \E role \in {"lexer", "parser"} :
         \E name \in (IF role = "lexer" THEN required_lexer_predicates
                      ELSE required_parser_predicates) :
            /\ removed' = {<<role, name>>}
            /\ fs' = IF role = "lexer"
                     THEN WriteText(fs, LexerJs,
                                    WithoutImpl(fs[LexerJs].text, LexerImplPrefix, name))
                     ELSE WriteText(fs, ParserJs,
                                    WithoutImpl(fs[ParserJs].text, ParserImplPrefix, name))
    /\ UNCHANGED <<pc, at, local, trace, ret, report, run, deleted>>
    /\ UNCHANGED textVars /\ UNCHANGED jsVars

(***************************************************************************)
(* Initial states and specifications.                                      *)
(***************************************************************************)
TextIdle == input = << >> /\ output = << >> /\ phase = "idle"

PipeIdle ==
    /\ pc = "Idle"
    /\ at = StartOf("Idle")
    /\ local = << >>
    /\ fs = [p \in Files |-> NoFile]
    /\ trace = << >>
    /\ ret = {}
    /\ report = NoReport
    /\ run = 0
    /\ removed = {}
    /\ deleted = 0

JsIdle ==
    /\ own = [i \in Lexers |-> NoOwn]
    /\ heap = [r \in {ProtoArray} |-> << >>]
    /\ lastCall = NoCall

\* main is started on a checkout: the source grammars and the jar are there or
\* not, nothing is staged or generated yet
Init ==
    /\ pc = steps[1]
    /\ at = StartOf(steps[1])
    /\ local = << >>
    /\ \E lexer \in {NoFile} \cup {File(g) : g \in LexerGrammars},
          parser \in {NoFile} \cup {File(g) : g \in ParserGrammars},
          jar \in {NoFile, File(<< >>)} :
          fs = [p \in Files |->
                   CASE p = SourceLexer -> lexer
                     [] p = SourceParser -> parser
                     [] p = ANTLR_JAR -> jar
                     [] OTHER -> NoFile]
    /\ trace = << >>
    /\ ret = {}
    /\ report = NoReport
    /\ run = 1
    /\ removed = {}
    /\ deleted = 0
    /\ TextIdle
    /\ JsIdle

\* the file operations of the four steps, each at its place in its step
Step ==
    \/ TransformExists \/ TransformRead \/ TransformWrite
    \/ GenerateExists \/ GenerateRun
    \/ InjectExists \/ InjectRead \/ InjectWrite
    \/ VerifyRead

Next == Step \/ Restart

Spec == Init /\ [][Next]_vars

NextEnv == Step \/ Restart \/ EnvDelete

SpecEnv == Init /\ [][NextEnv]_vars

\* one run of main, with an implementation removed before Verify
NextGap == Step \/ RemoveImplementation

SpecGap == Init /\ [][NextGap]_vars

\* the lexer instances of one loaded SqlBaseLexer.js
InitLexer == JsIdle /\ PipeIdle /\ TextIdle

NextLexer ==
    \E i \in Lexers :
        \/ isShiftRightOperator(i) /\ UNCHANGED textVars /\ UNCHANGED pipeVars
        \/ incComplexTypeLevelCounter(i) /\ UNCHANGED textVars /\ UNCHANGED pipeVars
        \/ decComplexTypeLevelCounter(i) /\ UNCHANGED textVars /\ UNCHANGED pipeVars
        \/ markUnclosedComment(i) /\ UNCHANGED textVars /\ UNCHANGED pipeVars
        \/ popDollarTag(i) /\ UNCHANGED textVars /\ UNCHANGED pipeVars
        \/ \E text \in Texts :
              pushDollarTag(i, text) /\ UNCHANGED textVars /\ UNCHANGED pipeVars
        \/ \E text \in Texts :
              matchesDollarTag(i, text) /\ UNCHANGED textVars /\ UNCHANGED pipeVars

SpecLexer == InitLexer /\ [][NextLexer]_vars

\* grammar texts for remove_block: up to MaxSegs pieces in a row
StripPieces ==
    {<<"@","m","e","m","b","e","r","s">>, <<"@">>, <<"m","e","m","b","e","r","s">>, <<" ">>, <<"">>, <<"{">>, <<"}">>, <<"x">>,
     <<"@","m","e","m","b","e","r","s"," ","{","a","{","b","}","c","}","\n">>}

RECURSIVE Flatten(_)
Flatten(segs) == IF segs = << >> THEN << >> ELSE segs[1] \o Flatten(From(segs, 2))

StripInputs ==
    {Flatten(segs) : segs \in UNION {[1..n -> StripPieces] : n \in 0..MaxSegs}}

InitStrip ==
    /\ input \in StripInputs
    /\ output = << >>
    /\ phase = "input"
    /\ PipeIdle /\ JsIdle

Strip ==
    /\ phase = "input"
    /\ output' = remove_block(input, <<"m","e","m","b","e","r","s">>)
    /\ phase' = "stripped"
    /\ UNCHANGED input /\ UNCHANGED pipeVars /\ UNCHANGED jsVars

SpecStrip == InitStrip /\ [][Strip]_vars

\* grammar texts for transform_predicates_for_js: up to MaxFrags braced
\* fragments in a row, each "{" pad body pad "}" with or without a "?" after it
Pad(n) == [k \in 1..n |-> " "]

Bodies ==
    {<<"f","o","o","(",")">>, <<"!","f","o","o","(",")">>, <<"f","o","o","(",")",";">>, <<"f","o","o">>, <<"!","f","o","o">>, <<"f","o","o","(","x",")">>, <<"1","x">>, << >>,
     <<"é","(",")">>, <<"é","(",")",";">>, <<"a","é">>,
     <<"t","a","g","s",".","p","u","s","h","(","g","e","t","T","e","x","t","(",")",")",";">>, <<"t","a","g","s",".","p","u","s","h","(","g","e","t","T","e","x","t","(",")",")">>,
     <<"g","e","t","T","e","x","t","(",")",".","e","q","u","a","l","s","(","t","a","g","s",".","p","e","e","k","(",")",")">>, <<"t","a","g","s",".","p","o","p","(",")",";">>, <<"t","a","g","s",".","p","o","p","(",")">>}

Fragments ==
    {<<"{">> \o Pad(a) \o body \o Pad(b) \o <<"}">> \o q :
        a \in 0..1, b \in 0..1, body \in Bodies, q \in {<< >>, <<"?">>}}

RewriteInputs ==
    {Flatten(segs) : segs \in UNION {[1..n -> Fragments] : n \in 0..MaxFrags}}

InitRewrite ==
    /\ input \in RewriteInputs
    /\ output = << >>
    /\ phase = "input"
    /\ PipeIdle /\ JsIdle

Rewrite ==
    /\ phase = "input"
    /\ output' = transform_predicates_for_js(input)
    /\ phase' = "rewritten"
    /\ UNCHANGED input /\ UNCHANGED pipeVars /\ UNCHANGED jsVars

SpecRewrite == InitRewrite /\ [][Rewrite]_vars

(***************************************************************************)
(* Properties of the driver and its stages.                                *)
(***************************************************************************)
Last(s) == s[Len(s)]

AllOk(t) == \A k \in 1..Len(t) : t[k].result = "ok"

\* C1: main calls the steps in the order Transform, Generate, Inject, Verify,
\* each only after every earlier one returned success; after a failure no
\* further step is called and main returns 1; main returns 0 exactly when
\* all four steps returned success.
C1_StageOrder ==
    /\ Len(trace) <= Len(steps)
    /\ \A k \in 1..Len(trace) :
          /\ trace[k].stage = steps[k]
          /\ k < Len(trace) => trace[k].result = "ok"
    /\ pc \in {"Transform", "Generate", "Inject", "Verify"} =>
          /\ pc = steps[Len(trace) + 1]
          /\ AllOk(trace)
          /\ ret = {}
    /\ (trace # << >> /\ Last(trace).result = "fail") => pc = "Failed" /\ ret = {1}
    /\ ret = {1} <=> (trace # << >> /\ Last(trace).result = "fail")
    /\ ret = {0} <=> (Len(trace) = Len(steps) /\ AllOk(trace))
    /\ ret = {0} <=> pc = "Done"
    /\ pc = "Raised" <=> (trace # << >> /\ Last(trace).result = "raise")
    /\ pc = "Raised" => ret = {}

\* Generate failed: main returned 1 after two steps
C1_Witness ==
    pc = "Failed" /\ Len(trace) = 2 /\ trace[1].result = "ok" /\ ret = {1}

\* the number of definitions "<prefix><name> =" in content
DefCount(content, prefix, name) ==
    Cardinality({i \in Occurrences(content, prefix \o name) :
                    /\ WordEnd(content, i + Len(prefix)) = i + Len(prefix) + Len(name)
                    /\ ImplAt(content, i, prefix)})

\* every catalog name of both roles is defined n times in the two artifacts of f
DefinedTimes(f, n) ==
    /\ \A name \in required_lexer_predicates :
          DefCount(f[LexerJs].text, LexerImplPrefix, name) = n
    /\ \A name \in required_parser_predicates \cup required_parser_flags :
          DefCount(f[ParserJs].text, ParserImplPrefix, name) = n

InjectSucceeded == Len(trace) >= 3 /\ trace[3].result = "ok"

\* C2: once Inject has succeeded in a run, each of the nine lexer methods is
\* defined exactly once in the lexer artifact and isOperatorPipeStart and each
\* of the seven flags exactly once in the parser artifact, in every run of a
\* sequence of runs; injecting again into these artifacts without generating
\* them anew would define each name twice.
C2_DefinedOnce ==
    InjectSucceeded =>
        /\ DefinedTimes(fs, 1)
        /\ DefinedTimes(add_predicate_implementations(fs).fs, 2)

\* Inject has succeeded in a second run of main over the files of the first
C2_Witness == InjectSucceeded /\ run = 2 /\ pc = "Verify"

\* C3: once Inject has succeeded, Verify finds nothing missing for either
\* role, returns success, and main ends in Done.
C3_RoundTrip ==
    /\ (InjectSucceeded /\ pc = "Verify") =>
           /\ ~verify_predicates(fs).raised
           /\ verify_predicates(fs).ok
    /\ (InjectSucceeded /\ Len(trace) = 4) =>
           /\ trace[4].result = "ok"
           /\ NoIssues(report)
           /\ pc = "Done"
           /\ ret = {0}

\* Verify has run on injected artifacts whose generated part ends inside a
\* member reference
C3_Witness ==
    /\ pc = "Done"
    /\ MatchLit(fs[LexerJs].text, 1, <<"x","(","S","q","l","B","a","s","e","L","e","x","e","r",".","p","r","o","t","o","t","y","p","e",".","i","s","H","i","n","t","\n">>)
    /\ trace[4].result = "ok"

\* C4: with exactly one catalog method's injected implementation removed
\* from its artifact, Verify does not raise, reports exactly that name
\* missing for that role and nothing else missing, and returns failure, so
\* main ends in Failed.
C4_GapDetected ==
    \A gap \in removed :
        Len(trace) = 4 =>
            /\ trace[4].result = "fail"
            /\ report.missing_lexer = (IF gap[1] = "lexer" THEN {gap[2]} ELSE {})
            /\ report.missing_parser_predicates =
                   (IF gap[1] = "parser" THEN {gap[2]} ELSE {})
            /\ report.missing_parser_flags = {}
            /\ pc = "Failed"
            /\ ret = {1}

\* Verify has run on a lexer artifact without its matchesDollarTag
C4_Witness ==
    /\ removed = {<<"lexer", <<"m","a","t","c","h","e","s","D","o","l","l","a","r","T","a","g">>>>}
    /\ Len(trace) = 4
    /\ pc = "Failed"

\* C9: a step that runs while a file it needs does not exist returns failure,
\* no further step is called, and main returns 1.
C9_MissingInputFails ==
    \A k \in 1..Len(trace) :
        trace[k].missing =>
            /\ trace[k].result = "fail"
            /\ k = Len(trace)
            /\ pc = "Failed"
            /\ ret = {1}

(***************************************************************************)
(* Properties of the grammar transform.                                    *)
(***************************************************************************)
\* the depth-d scan from j finds the closing brace
RECURSIVE Closes(_, _, _)
Closes(s, j, d) ==
    IF d = 0 THEN TRUE
    ELSE IF j > Len(s) THEN FALSE
    ELSE Closes(s, j + 1, IF s[j] = "{" THEN d + 1 ELSE IF s[j] = "}" THEN d - 1 ELSE d)

\* the positions where the region opener "@members {" occurs
Openers(s) ==
    {i \in Occurrences(s, <<"@","m","e","m","b","e","r","s">>) : BlockOpenEnd(s, i, <<"m","e","m","b","e","r","s">>) # 0}

\* every occurrence is brace-balanced
AllBalanced(s) ==
    \A i \in Openers(s) : Closes(s, BlockOpenEnd(s, i, <<"m","e","m","b","e","r","s">>), 1)

\* the occurrences that do not lie inside the body of another
Occurrence(s) ==
    {i \in Openers(s) :
        \A q \in Openers(s) :
            ~(q < i /\ i < CloseBrace(s, BlockOpenEnd(s, q, <<"m","e","m","b","e","r","s">>), 1))}

\* C5: for a text whose N occurrences of "@members { ... }" are brace-balanced,
\* remove_block removes exactly N occurrences and the text it returns holds
\* no occurrence of the opener "@members {".
C5_BraceBalance ==
    (phase = "stripped" /\ AllBalanced(input)) =>
        /\ RemovedFrom(input, <<"m","e","m","b","e","r","s">>, 1) = Cardinality(Occurrence(input))
        /\ Openers(output) = {}

\* one of the four shapes of the rewriter's contract starts at position i:
\* a tag-stack idiom, {name()}? or {!name()}?, {name();}, {name}? or {!name}?
ShapeAt(s, i) ==
    \/ PassEnd(1, s, i) # 0
    \/ PassEnd(2, s, i) # 0
    \/ PassEnd(3, s, i) # 0
    \/ CallMatch(s, i).end # 0 /\ CallMatch(s, i).q = 1
    \/ ActionMatch(s, i).end # 0
    \/ VarMatch(s, i).end # 0

\* C6: a text that holds none of the four shapes is returned character for
\* character; so is {name()} or {!name()} with neither "?" nor ";".
C6_OnlyFourShapes ==
    (phase = "rewritten" /\ \A i \in 1..Len(input) : ~ShapeAt(input, i)) =>
        output = input

\* "{", optional blanks, "tags.push(getText());", optional blanks, "}"
PushForms ==
    {<<"{">> \o Pad(a) \o <<"t","a","g","s",".","p","u","s","h","(","g","e","t","T","e","x","t","(",")",")",";">> \o Pad(b) \o <<"}">> : a \in 0..1, b \in 0..1}

\* C7: the push-tag form is rewritten to {this.pushDollarTag();} whatever
\* whitespace stands inside the braces.
C7_PushTagAnyPadding ==
    (phase = "rewritten" /\ input \in PushForms) =>
        output = <<"{","t","h","i","s",".","p","u","s","h","D","o","l","l","a","r","T","a","g","(",")",";","}">>

(***************************************************************************)
(* Properties of the injected lexer members.                               *)
(***************************************************************************)
Counter(i) == Get(own[i], "complex_type_level_counter")

\* what instance i's members see: its flag, its counter, its tag stack
View(i) ==
    <<Get(own[i], "has_unclosed_bracketed_comment"), Counter(i),
      heap[Get(own[i], "dollar_tags")]>>

\* C8: a call on one lexer instance leaves the flag, the counter and the tag
\* stack of every other instance unchanged.
C8_PerInstanceState ==
    [][\A j \in Lexers : lastCall'.inst # j => View(j)' = View(j)]_vars

\* C10: the nesting counter of an instance is never negative, a decrement at
\* zero leaves it at zero, and isShiftRightOperator returns true exactly
\* when the counter is zero.
C10_NestingCounter ==
    /\ [](\A i \in Lexers : Counter(i) >= 0)
    /\ [](lastCall.op = "isShiftRightOperator" =>
              lastCall.result = {Counter(lastCall.inst) = 0})
    /\ [][\A i \in Lexers :
            (lastCall'.op = "decComplexTypeLevelCounter" /\ lastCall'.inst = i
                /\ Counter(i) = 0) => Counter(i)' = 0]_vars

\* isShiftRightOperator returned false on an instance inside a complex type
C10_Witness ==
    /\ lastCall.op = "isShiftRightOperator"
    /\ lastCall.result = {FALSE}
    /\ Counter(lastCall.inst) > 0

====
